---- MODULE Spec2Model ----
(***************************************************************************)
(* Model of the secure-onboarding flow (SecureOnboardingScreen.tsx, with   *)
(* the Button it presses and the useBiometrics hook it consults) and of    *)
(* the settings store (SettingsContext).                                   *)
(*                                                                         *)
(* React closures are modelled by what they capture: a handler created by  *)
(* a render sees the state of that render, also when it runs later (after  *)
(* an await).  Every await of the source is a point where other events may *)
(* run, so each asynchronous handler is split at its awaits and the        *)
(* continuation is kept, with what it captured, in a bag of outstanding    *)
(* continuations.                                                          *)
(***************************************************************************)
EXTENDS Integers, Sequences, FiniteSets, Bags, TLC

(***************************************************************************)
(* Bounds                                                                  *)
(***************************************************************************)
\* longest text typed into the recovery-email field
MaxEmailLen == 1
\* most asynchronous continuations of the onboarding screen outstanding at once
MaxPending == 2
\* most calls of updateSetting / updateSettings / resetSettings in one run
MaxCalls == 2
\* most process restarts in one run
MaxRestarts == 1
\* most calls of updateSetting / updateSettings / resetSettings around one load
MaxLoadCalls == 1
\* most presses of one Button that pass its disabled test
MaxPresses == 5
\* most launches of the app on one install
MaxLaunches == 4
\* most calls of useBiometrics.authenticate in one run
MaxAuthCalls == 4

(***************************************************************************)
(* Onboarding: state                                                       *)
(***************************************************************************)
VARIABLES
    currentStep,     \* useState<Step>('welcome')
    isLoading,       \* useState(false)
    email,           \* useState('')
    mounted,         \* the screen is on the navigation stack
    isAvailable,     \* useBiometrics: useState(false)
    isChecking,      \* useBiometrics: useState(true)
    hasHardware,     \* device: LocalAuthentication.hasHardwareAsync()
    isEnrolled,      \* device: LocalAuthentication.isEnrolledAsync()
    supportedTypes,  \* device: number of supportedAuthenticationTypesAsync()
    presses,         \* bag: Button.handlePress calls awaiting their haptic call
    auths,           \* bag: LocalAuthentication.authenticateAsync prompts outstanding
    timers,          \* bag: setTimeout callbacks not yet fired
    lastOp           \* history: the handler that ran last, and what it saw

obVars == <<currentStep, isLoading, email, mounted, isAvailable, isChecking,
            hasHardware, isEnrolled, supportedTypes, presses, auths, timers, lastOp>>

(***************************************************************************)
(* Settings store: state                                                   *)
(***************************************************************************)
VARIABLES
    settings,         \* SettingsProvider: useState<AppSettings>(mockSettings)
    settingsLoading,  \* SettingsProvider: useState(true)
    stored,           \* AsyncStorage: the item under SETTINGS_STORAGE_KEY
    loadState,        \* position of loadSettings: "reading", "read", "done"
    loadBuf,          \* what AsyncStorage.getItem resolved with
    callers,          \* bag: handlers holding an update function of an earlier render
    writes,           \* queue: AsyncStorage.setItem calls not yet settled
    calls,            \* number of update / reset calls begun
    restarts,         \* number of process restarts
    lastSt,           \* history: the store operation that ran last
    hist              \* history: what the latest calls were expected to leave

stVars == <<settings, settingsLoading, stored, loadState, loadBuf, callers, writes,
            calls, restarts, lastSt, hist>>

(***************************************************************************)
(* A design-system Button on its own: state                                *)
(***************************************************************************)
VARIABLES
    btnDisabled,      \* the disabled prop of the latest render
    hapticRequests,   \* number of Haptics.impactAsync calls made
    btnPending,       \* handlePress calls waiting at their await
    onPressCalls,     \* number of calls of the onPress prop
    btnLast           \* history: what the button did last

btVars == <<btnDisabled, hapticRequests, btnPending, onPressCalls, btnLast>>

(***************************************************************************)
(* AppNavigator: state                                                     *)
(***************************************************************************)
VARIABLES
    hasLaunched,      \* AsyncStorage: the item under 'hasLaunched', "null" or "true"
    isFirstLaunch,    \* useState<boolean | null>(null): "null", "true", "false"
    launchPc,         \* position of checkFirstLaunch: "getItem", "setItem", "done"
    route,            \* the route on top of the stack, "none" while nothing is rendered
    firstRoute,       \* history: the route the navigator showed first in this launch
    foundNoFlag,      \* history: what getItem found in this launch: "unknown", "yes", "no"
    launches          \* number of launches so far

lnVars == <<hasLaunched, isFirstLaunch, launchPc, route, firstRoute, foundNoFlag, launches>>

(***************************************************************************)
(* useBiometrics.authenticate called on its own: state                     *)
(***************************************************************************)
VARIABLES
    authResult,       \* what the latest call of authenticate was given and produced
    authCalls         \* number of calls of authenticate

auVars == <<authResult, authCalls>>

(***************************************************************************)
(* SettingsScreen: state                                                   *)
(***************************************************************************)
VARIABLES
    toggled,          \* history: per switch, the handleToggle calls that reached updateSetting
    platformOS        \* Platform.OS of the device: "ios" or "android"

tgVars == <<toggled, platformOS>>

auxVars == <<btVars, lnVars, auVars, tgVars>>

steps == <<"welcome", "device-key", "cloud-key", "recovery-key", "complete">>

Steps == {steps[i] : i \in 1..Len(steps)}

\* steps.indexOf(step)
indexOf(step) == (CHOOSE i \in 1..Len(steps) : steps[i] = step) - 1

\* the fraction counted from index 0 over the number of steps less one
progressFromZero(step) == (indexOf(step) * 100) \div (Len(steps) - 1)

\* const progress = ((currentStepIndex + 1) / steps.length) * 100; the quotients
\* 1/5 .. 5/5 times 100 are whole numbers in double arithmetic
progress(step) == ((indexOf(step) + 1) * 100) \div Len(steps)

Chars == {" ", "a"}

Texts == UNION {[1..n -> Chars] : n \in 0..MaxEmailLen}

RECURSIVE trimStart(_)
trimStart(s) == IF s # <<>> /\ Head(s) = " " THEN trimStart(Tail(s)) ELSE s

RECURSIVE trimEnd(_)
trimEnd(s) == IF s # <<>> /\ s[Len(s)] = " " THEN trimEnd(SubSeq(s, 1, Len(s) - 1)) ELSE s

\* trim forgotten
noTrim(s) == s

\* String.prototype.trim
trim(s) == trimEnd(trimStart(s))

\* JavaScript truthiness of a string: the empty string is falsy
truthy(s) == s # <<>>

\* history: failed holds from a failed or cancelled biometric prompt until the next
\* effect (prompt or timer) is started or a timer fires; retried marks a prompt opened
\* while failed held
Op(name, step, text, loading) ==
    [op |-> name, step |-> step, email |-> text, wasLoading |-> loading,
     failed |-> IF name = "authFailed" THEN TRUE
                ELSE IF name \in {"authenticateAsync", "handleNext", "timer"} THEN FALSE
                ELSE lastOp.failed,
     retried |-> name = "authenticateAsync" /\ lastOp.failed]

PendingCount == BagCardinality(presses) + BagCardinality(auths) + BagCardinality(timers)

One(x) == SetToBag({x})

(***************************************************************************)
(* useBiometrics                                                           *)
(***************************************************************************)
\* the enrolment check left out
capabilityResultNoEnrolment(hw, enrolled, ntypes, threw) ==
    IF threw THEN FALSE
    ELSE IF ~hw THEN FALSE
    ELSE ntypes > 0

\* the value checkBiometricCapability leaves in isAvailable
capabilityResult(hw, enrolled, ntypes, threw) ==
    IF threw THEN FALSE
    ELSE IF ~hw THEN FALSE
    ELSE IF ~enrolled THEN FALSE
    ELSE ntypes > 0

\* useState(false): the flag before the capability check has completed
initialAvailable == FALSE

\* useEffect(() => { checkBiometricCapability() }, []): runs once after mount
checkBiometricCapability ==
    /\ mounted
    /\ isChecking
    /\ \E threw \in BOOLEAN :
          isAvailable' = capabilityResult(hasHardware, isEnrolled, supportedTypes, threw)
    /\ isChecking' = FALSE
    /\ lastOp' = Op("checkBiometricCapability", currentStep, email, isLoading)
    /\ UNCHANGED <<currentStep, isLoading, email, mounted, hasHardware, isEnrolled,
                   supportedTypes, presses, auths, timers>>
    /\ UNCHANGED <<stVars, auxVars>>

(***************************************************************************)
(* SecureOnboardingScreen                                                  *)
(***************************************************************************)
\* Button disabled={isLoading || (currentStep === 'recovery-key' && !email.trim())}
disabled == isLoading \/ (currentStep = "recovery-key" /\ ~truthy(trim(email)))

\* biometrics skipped once a prompt has failed
onPressSkipAfterFailure ==
    IF currentStep = "device-key" /\ isAvailable /\ ~lastOp.failed
    THEN "handleBiometricSetup"
    ELSE "handleNext"

\* onPress={currentStep === 'device-key' && isAvailable ? handleBiometricSetup : handleNext}
onPress == IF currentStep = "device-key" /\ isAvailable THEN "handleBiometricSetup"
           ELSE "handleNext"

\* the device-key branch passing the wrong step
nextStepOfSkip(step) ==
    CASE step = "welcome" -> "device-key"
      [] step = "device-key" -> "recovery-key"
      [] step = "cloud-key" -> "recovery-key"
      [] step = "recovery-key" -> "complete"
      [] OTHER -> step

\* the step a handleNext branch passes to setCurrentStep
nextStepOf(step) ==
    CASE step = "welcome" -> "device-key"
      [] step = "device-key" -> "cloud-key"
      [] step = "cloud-key" -> "recovery-key"
      [] step = "recovery-key" -> "complete"
      [] OTHER -> step

\* whether the handleNext branch of this step starts a provisioning timer
startsTimer(step, text) ==
    \/ step \in {"device-key", "cloud-key"}
    \/ step = "recovery-key" /\ truthy(trim(text))

\* handleNext as created by a render with this currentStep and email.
\* State setters of an unmounted component do nothing; setTimeout still runs.
handleNext(step, text) ==
    /\ currentStep' = IF mounted /\ step = "welcome" THEN nextStepOf(step) ELSE currentStep
    /\ isLoading' = IF mounted /\ startsTimer(step, text) THEN TRUE ELSE isLoading
    /\ timers' = IF startsTimer(step, text)
                 THEN timers (+) One([from |-> step, to |-> nextStepOf(step)])
                 ELSE timers
    /\ mounted' = IF step = "complete" THEN FALSE ELSE mounted

\* Button.handlePress up to its await: a press on a disabled button returns at once,
\* otherwise the press waits for Haptics.impactAsync holding the onPress of this render
press ==
    /\ mounted
    /\ IF disabled
       THEN /\ presses' = presses
            /\ lastOp' = Op("pressDisabled", currentStep, email, isLoading)
       ELSE /\ PendingCount < MaxPending
            /\ presses' = presses (+) One([handler |-> onPress, step |-> currentStep,
                                           email |-> email, avail |-> isAvailable])
            /\ lastOp' = Op("press", currentStep, email, isLoading)
    /\ UNCHANGED <<currentStep, isLoading, email, mounted, isAvailable, isChecking,
                   hasHardware, isEnrolled, supportedTypes, auths, timers>>
    /\ UNCHANGED <<stVars, auxVars>>

\* Button.handlePress after its await (the haptic call resolved or threw): onPress()
\* with onPress = handleNext
pressNext ==
    \E p \in BagToSet(presses) :
       /\ p.handler = "handleNext"
       /\ presses' = presses (-) One(p)
       /\ handleNext(p.step, p.email)
       /\ lastOp' = Op("handleNext", p.step, p.email, isLoading)
       /\ UNCHANGED <<email, isAvailable, isChecking, hasHardware, isEnrolled,
                      supportedTypes, auths>>
       /\ UNCHANGED <<stVars, auxVars>>

\* Button.handlePress after its await, with onPress = handleBiometricSetup:
\* authenticate() of the same render returns at once when its isAvailable is false,
\* otherwise it opens the native prompt
pressBiometric ==
    \E p \in BagToSet(presses) :
       /\ p.handler = "handleBiometricSetup"
       /\ presses' = presses (-) One(p)
       /\ IF p.avail
          THEN /\ auths' = auths (+) One([step |-> p.step, email |-> p.email])
               /\ lastOp' = Op("authenticateAsync", p.step, p.email, isLoading)
               /\ UNCHANGED <<currentStep, isLoading, timers, mounted>>
          ELSE /\ handleNext(p.step, p.email)
               /\ lastOp' = Op("handleNext", p.step, p.email, isLoading)
               /\ auths' = auths
       /\ UNCHANGED <<email, isAvailable, isChecking, hasHardware, isEnrolled,
                      supportedTypes>>
       /\ UNCHANGED <<stVars, auxVars>>

\* the native prompt reports success: authenticate returns {success: true} and
\* handleBiometricSetup calls handleNext
authSuccess ==
    \E a \in BagToSet(auths) :
       /\ auths' = auths (-) One(a)
       /\ handleNext(a.step, a.email)
       /\ lastOp' = Op("handleNext", a.step, a.email, isLoading)
       /\ UNCHANGED <<email, isAvailable, isChecking, hasHardware, isEnrolled,
                      supportedTypes, presses>>
       /\ UNCHANGED <<stVars, auxVars>>

\* the native prompt fails, is cancelled or throws: authenticate returns
\* {success: false, error} and handleBiometricSetup does nothing
authFailure ==
    \E a \in BagToSet(auths) :
       /\ auths' = auths (-) One(a)
       /\ lastOp' = Op("authFailed", a.step, a.email, isLoading)
       /\ UNCHANGED <<currentStep, isLoading, email, mounted, isAvailable, isChecking,
                      hasHardware, isEnrolled, supportedTypes, presses, timers>>
       /\ UNCHANGED <<stVars, auxVars>>

\* a setTimeout callback of handleNext: setIsLoading(false); setCurrentStep(next)
timerFire ==
    \E t \in BagToSet(timers) :
       /\ timers' = timers (-) One(t)
       /\ isLoading' = IF mounted THEN FALSE ELSE isLoading
       /\ currentStep' = IF mounted THEN t.to ELSE currentStep
       /\ lastOp' = Op("timer", t.from, email, isLoading)
       /\ UNCHANGED <<email, mounted, isAvailable, isChecking, hasHardware, isEnrolled,
                      supportedTypes, presses, auths>>
       /\ UNCHANGED <<stVars, auxVars>>

\* Input onChangeText={setEmail}; the field is rendered on the recovery-key step only
setEmail ==
    /\ mounted
    /\ currentStep = "recovery-key"
    /\ \E text \in Texts : email' = text
    /\ lastOp' = Op("setEmail", currentStep, email', isLoading)
    /\ UNCHANGED <<currentStep, isLoading, mounted, isAvailable, isChecking, hasHardware,
                   isEnrolled, supportedTypes, presses, auths, timers>>
    /\ UNCHANGED <<stVars, auxVars>>


(***************************************************************************)
(* SettingsContext                                                         *)
(***************************************************************************)
\* keys of AppSettings, in the order object literals and spreads keep them
fieldOrder == <<"biometricsEnabled", "notificationsEnabled", "hapticFeedbackEnabled", "theme">>

Fields == {fieldOrder[i] : i \in 1..Len(fieldOrder)}

Themes == {"light", "dark", "auto"}

AllSettings == [biometricsEnabled : BOOLEAN, notificationsEnabled : BOOLEAN,
                hapticFeedbackEnabled : BOOLEAN, theme : Themes]

mockSettings == [biometricsEnabled |-> TRUE, notificationsEnabled |-> TRUE,
                 hapticFeedbackEnabled |-> TRUE, theme |-> "auto"]

\* the (key, value) arguments of updateSetting, as one-field partial settings
KeyValues == UNION {{[f \in {k} |-> s[f]] : s \in AllSettings} : k \in Fields}

\* the arguments of updateSettings tried: two fields at once
UpdatesSamples == {[biometricsEnabled |-> FALSE, theme |-> "dark"],
                   [notificationsEnabled |-> FALSE, hapticFeedbackEnabled |-> FALSE]}

\* the records found in storage at the first start, besides none and an unparseable one
StoredSamples == {mockSettings,
                  [biometricsEnabled |-> FALSE, notificationsEnabled |-> TRUE,
                   hapticFeedbackEnabled |-> FALSE, theme |-> "light"]}

\* { ...base, ...updates }
merge(base, updates) ==
    [f \in Fields |-> IF f \in DOMAIN updates THEN updates[f] ELSE base[f]]

\* JSON.stringify of a settings object: its members in key order
stringify(s) ==
    [i \in 1..Len(fieldOrder) |->
        IF fieldOrder[i] = "theme"
        THEN [key |-> fieldOrder[i], t |-> "string", v |-> s[fieldOrder[i]]]
        ELSE [key |-> fieldOrder[i], t |-> "bool",
              v |-> IF s[fieldOrder[i]] THEN "true" ELSE "false"]]

\* JSON.parse of a well-formed document
parse(doc) ==
    [f \in {doc[i].key : i \in DOMAIN doc} |->
        LET e == doc[CHOOSE i \in DOMAIN doc : doc[i].key = f]
        IN  IF e.t = "bool" THEN e.v = "true" ELSE e.v]

Item(kind, doc) == [kind |-> kind, doc |-> doc]

NoItem == Item("none", <<>>)

\* the promise saveSettings returns: its try/catch logs a failed write and returns
saveOutcome(ok) == "resolved"

StOp(name, ok) == [op |-> name, ok |-> ok, outcome |-> saveOutcome(ok)]

Last(q) == q[Len(q)]

\* a failed load putting the defaults back
loadedSettingsDefaults(buf, current) ==
    IF buf.kind = "json" THEN parse(buf.doc) ELSE mockSettings

\* the settings loadSettings leaves: if (storedSettings) setSettings(JSON.parse(...));
\* null skips the branch, a rejected read or a parse error goes to the catch
loadedSettings(buf, current) ==
    IF buf.kind = "json" THEN parse(buf.doc) ELSE current

\* loadSettings up to its await: AsyncStorage.getItem settles
loadRead ==
    /\ loadState = "reading"
    /\ \E ok \in BOOLEAN : loadBuf' = IF ok THEN stored ELSE Item("error", <<>>)
    /\ loadState' = "read"
    /\ lastSt' = StOp("getItem", TRUE)
    /\ UNCHANGED <<settings, settingsLoading, stored, callers, writes, calls, restarts, hist>>
    /\ UNCHANGED <<obVars, auxVars>>

\* loadSettings after its await: a stored string is parsed and replaces the settings;
\* null, a rejected read or an unparseable string leave them; finally isLoading = false
loadSettings ==
    /\ loadState = "read"
    /\ settings' = loadedSettings(loadBuf, settings)
    /\ settingsLoading' = FALSE
    /\ loadState' = "done"
    /\ lastSt' = StOp("loadSettings", TRUE)
    /\ hist' = [hist EXCEPT !.reload = IF @ # "loading" THEN @
                                       ELSE IF loadBuf.kind = "error" THEN "unread"
                                       ELSE "loaded",
                            !.overlap = FALSE]
    /\ UNCHANGED <<stored, loadBuf, callers, writes, calls, restarts>>
    /\ UNCHANGED <<obVars, auxVars>>

\* a consumer's handler starts with the context value of the current render (its
\* updateSetting / updateSettings close over this render's settings) and awaits
\* before calling it, as SettingsScreen.handleToggle awaits haptics.light()
consumerHandler ==
    /\ calls < MaxCalls
    /\ \/ \E partial \in KeyValues :
             callers' = callers (+) One([fn |-> "updateSetting", settings |-> settings,
                                         partial |-> partial])
       \/ \E partial \in UpdatesSamples :
             callers' = callers (+) One([fn |-> "updateSettings", settings |-> settings,
                                         partial |-> partial])
    /\ calls' = calls + 1
    /\ lastSt' = StOp("handler", TRUE)
    /\ UNCHANGED <<settings, settingsLoading, stored, loadState, loadBuf, writes, restarts, hist>>
    /\ UNCHANGED <<obVars, auxVars>>

\* this call is issued while the previous call, an update of other fields, has not
\* completed
overlaps(partial) ==
    /\ writes # <<>>
    /\ Last(writes).kind = "update"
    /\ DOMAIN Last(writes).partial \cap DOMAIN partial = {}

\* the history a call of updateSetting / updateSettings leaves
histUpdate(partial) ==
    [hist EXCEPT !.kind = "update",
                 !.expected = merge(settings, partial),
                 !.ordered = merge(IF writes = <<>> THEN settings ELSE hist.ordered, partial),
                 !.done = FALSE,
                 !.reload = "no",
                 !.overlap = overlaps(partial),
                 !.a = IF overlaps(partial) THEN Last(writes).partial ELSE <<>>,
                 !.b = IF overlaps(partial) THEN partial ELSE <<>>]

\* the body shared by updateSetting and updateSettings: merge into the settings the
\* function closed over, setSettings, then saveSettings (which awaits setItem)
applyUpdate(c) ==
    LET newSettings == merge(c.settings, c.partial)
    IN  /\ settings' = newSettings
        /\ writes' = Append(writes, [doc |-> stringify(newSettings), kind |-> "update",
                                     partial |-> c.partial])
        /\ callers' = callers (-) One(c)
        /\ hist' = histUpdate(c.partial)
        /\ UNCHANGED <<settingsLoading, stored, loadState, loadBuf, calls, restarts>>
        /\ UNCHANGED obVars

updateSetting ==
    \E c \in BagToSet(callers) :
       /\ c.fn = "updateSetting"
       /\ applyUpdate(c)
       /\ lastSt' = StOp("updateSetting", TRUE)
       /\ UNCHANGED auxVars

updateSettings ==
    \E c \in BagToSet(callers) :
       /\ c.fn = "updateSettings"
       /\ applyUpdate(c)
       /\ lastSt' = StOp("updateSettings", TRUE)
       /\ UNCHANGED auxVars

\* the Haptics.impactAsync calls one call of useHaptics' light, medium, heavy or
\* trigger makes: if (!isAvailable) return, with isAvailable = Platform.OS === 'ios'
impacts(os) == IF os = "ios" THEN 1 ELSE 0

\* a handler calls light(), medium(), heavy() or trigger(intensity) of useHaptics
useHapticsImpact ==
    /\ hapticRequests < MaxPresses
    /\ hapticRequests' = hapticRequests + impacts(platformOS)
    /\ btnLast' = "useHaptics"
    /\ UNCHANGED <<btnDisabled, btnPending, onPressCalls>>
    /\ UNCHANGED <<obVars, stVars, lnVars, auVars, tgVars>>

\* the switches of SettingsScreen that call handleToggle
ToggleKeys == {"biometricsEnabled", "notificationsEnabled", "hapticFeedbackEnabled"}

\* SettingsScreen.handleToggle(key) up to its first await, haptics.light(): the handler
\* of this render holds this render's settings and updateSetting
handleToggle ==
    /\ calls < MaxCalls
    /\ \E key \in ToggleKeys :
          callers' = callers (+) One([fn |-> "handleToggle", settings |-> settings,
                                      partial |-> [f \in {key} |-> ~settings[key]]])
    /\ calls' = calls + 1
    /\ lastSt' = StOp("handleToggle", TRUE)
    /\ hapticRequests' = hapticRequests + impacts(platformOS)
    /\ UNCHANGED <<settings, settingsLoading, stored, loadState, loadBuf, writes, restarts, hist>>
    /\ UNCHANGED <<btnDisabled, btnPending, onPressCalls, btnLast>>
    /\ UNCHANGED tgVars
    /\ UNCHANGED <<obVars, lnVars, auVars>>

\* handleToggle after haptics.light(): await updateSetting(key, !settings[key]) with the
\* settings of the render that created the handler
toggleUpdateSetting ==
    \E c \in BagToSet(callers) :
       /\ c.fn = "handleToggle"
       /\ applyUpdate(c)
       /\ lastSt' = StOp("updateSetting", TRUE)
       /\ toggled' = [toggled EXCEPT ![CHOOSE k \in DOMAIN c.partial : TRUE] = @ + 1]
       /\ UNCHANGED <<btVars, lnVars, auVars, platformOS>>

resetSettings ==
    /\ calls < MaxCalls
    /\ calls' = calls + 1
    /\ settings' = mockSettings
    /\ writes' = Append(writes, [doc |-> stringify(mockSettings), kind |-> "reset",
                                 partial |-> <<>>])
    /\ hist' = [hist EXCEPT !.kind = "reset", !.expected = mockSettings,
                            !.ordered = mockSettings, !.done = FALSE,
                            !.reload = "no", !.overlap = FALSE]
    /\ lastSt' = StOp("resetSettings", TRUE)
    /\ UNCHANGED <<settingsLoading, stored, loadState, loadBuf, callers, restarts>>
    /\ UNCHANGED <<obVars, auxVars>>

\* saveSettings after its await: the oldest outstanding AsyncStorage.setItem settles,
\* and the update / reset call that awaited it returns
saveSettings ==
    /\ writes # <<>>
    /\ \E ok \in BOOLEAN :
          /\ stored' = IF ok THEN Item("json", Head(writes).doc) ELSE stored
          /\ lastSt' = StOp("saveSettings", ok)
    /\ writes' = Tail(writes)
    /\ hist' = [hist EXCEPT !.settled = TRUE,
                            !.done = (hist.kind # "none" /\ Len(writes) = 1)]
    /\ UNCHANGED <<settings, settingsLoading, loadState, loadBuf, callers, calls, restarts>>
    /\ UNCHANGED <<obVars, auxVars>>

\* the process is killed and started again: memory is lost, the stored item stays,
\* and the provider mounts again
restart ==
    /\ restarts < MaxRestarts
    /\ restarts' = restarts + 1
    /\ settings' = mockSettings
    /\ settingsLoading' = TRUE
    /\ loadState' = "reading"
    /\ loadBuf' = NoItem
    /\ callers' = EmptyBag
    /\ writes' = <<>>
    /\ hist' = [hist EXCEPT !.settled = FALSE,
                            !.kind = IF hist.done THEN hist.kind ELSE "none",
                            !.reload = IF hist.kind # "none" /\ hist.done THEN "loading"
                                       ELSE "no",
                            !.overlap = FALSE]
    /\ lastSt' = StOp("restart", TRUE)
    /\ UNCHANGED <<stored, calls>>
    /\ UNCHANGED <<obVars, auxVars>>

(***************************************************************************)
(* Button                                                                  *)
(***************************************************************************)
\* the disabled test left out
handlePressNeverReturns(dis) == FALSE

\* if (disabled) return;
handlePressReturns(dis) == dis

\* onPress skipped when the haptic call failed
onPressUnlessHapticFailed(ok) == IF ok THEN 1 ELSE 0

\* the calls of onPress made once the awaited haptic call has resolved (ok) or thrown:
\* try { await Haptics.impactAsync(Light) } catch {}; onPress();
onPressAfterHaptic(ok) == 1

\* the parent renders the Button with the other value of disabled
buttonRender ==
    /\ btnDisabled' = ~btnDisabled
    /\ btnLast' = "render"
    /\ UNCHANGED <<hapticRequests, btnPending, onPressCalls>>
    /\ UNCHANGED <<obVars, stVars, lnVars, auVars, tgVars>>

\* Button.handlePress up to its await
buttonPress ==
    /\ IF handlePressReturns(btnDisabled)
       THEN UNCHANGED <<hapticRequests, btnPending>>
       ELSE /\ hapticRequests < MaxPresses
            /\ hapticRequests' = hapticRequests + 1
            /\ btnPending' = btnPending + 1
    /\ btnLast' = IF btnDisabled THEN "pressDisabled" ELSE "press"
    /\ UNCHANGED <<btnDisabled, onPressCalls>>
    /\ UNCHANGED <<obVars, stVars, lnVars, auVars, tgVars>>

\* Button.handlePress after its await: the haptic call resolved or threw
buttonHapticSettled ==
    /\ btnPending > 0
    /\ \E ok \in BOOLEAN :
          /\ onPressCalls' = onPressCalls + onPressAfterHaptic(ok)
          /\ btnLast' = IF ok THEN "hapticResolved" ELSE "hapticRejected"
    /\ btnPending' = btnPending - 1
    /\ UNCHANGED <<btnDisabled, hapticRequests>>
    /\ UNCHANGED <<obVars, stVars, lnVars, auVars, tgVars>>

(***************************************************************************)
(* AppNavigator                                                            *)
(***************************************************************************)
\* the screens registered as onboarding, in the two versions of the navigator
OnboardingRoutes == {"SecureOnboarding", "Onboarding"}

\* <Stack.Navigator initialRouteName="Welcome">, whatever isFirstLaunch holds
initialRouteName(first) == "Welcome"

\* navigation.navigate / navigation.replace calls of the screens: WelcomeScreen
\* (handleSignUp, handleLogin), SignUpScreen (success alert, handleLogin),
\* DashboardScreen (handleLogout, handleTransactionPress)
NavEdges ==
    {<<"Welcome", "SignUp">>, <<"Welcome", "Login">>,
     <<"SignUp", "Dashboard">>, <<"SignUp", "Login">>,
     <<"Dashboard", "Login">>, <<"Dashboard", "TransactionDetail">>}

\* if (isFirstLaunch === null) return null; otherwise the navigator is rendered and
\* starts on its initial route
rendered(first, current) ==
    IF first = "null" THEN "none"
    ELSE IF current = "none" THEN initialRouteName(first)
    ELSE current

\* checkFirstLaunch up to its second await: getItem resolves or throws
checkFirstLaunchRead ==
    /\ launchPc = "getItem"
    /\ \E ok \in BOOLEAN :
          /\ isFirstLaunch' = IF ok /\ hasLaunched = "null" THEN "true" ELSE "false"
          /\ launchPc' = IF ok /\ hasLaunched = "null" THEN "setItem" ELSE "done"
          /\ foundNoFlag' = IF ~ok THEN "unknown"
                            ELSE IF hasLaunched = "null" THEN "yes" ELSE "no"
    /\ route' = rendered(isFirstLaunch', route)
    /\ firstRoute' = route'
    /\ UNCHANGED <<hasLaunched, launches>>
    /\ UNCHANGED <<obVars, stVars, btVars, auVars, tgVars>>

\* checkFirstLaunch after await AsyncStorage.setItem('hasLaunched', 'true'): the write
\* succeeded, or it threw and the catch calls setIsFirstLaunch(false)
checkFirstLaunchWrite ==
    /\ launchPc = "setItem"
    /\ \E ok \in BOOLEAN :
          /\ hasLaunched' = IF ok THEN "true" ELSE hasLaunched
          /\ isFirstLaunch' = IF ok THEN isFirstLaunch ELSE "false"
    /\ launchPc' = "done"
    /\ UNCHANGED <<route, firstRoute, foundNoFlag, launches>>
    /\ UNCHANGED <<obVars, stVars, btVars, auVars, tgVars>>

\* a screen's handler navigates
navigate ==
    /\ \E e \in NavEdges : route = e[1] /\ route' = e[2]
    /\ UNCHANGED <<hasLaunched, isFirstLaunch, launchPc, firstRoute, foundNoFlag, launches>>
    /\ UNCHANGED <<obVars, stVars, btVars, auVars, tgVars>>

\* the app is closed and launched again: component state starts over, storage stays
relaunch ==
    /\ launches < MaxLaunches
    /\ launches' = launches + 1
    /\ isFirstLaunch' = "null"
    /\ launchPc' = "getItem"
    /\ route' = "none"
    /\ firstRoute' = "none"
    /\ foundNoFlag' = "unknown"
    /\ UNCHANGED hasLaunched
    /\ UNCHANGED <<obVars, stVars, btVars, auVars, tgVars>>

(***************************************************************************)
(* useBiometrics.authenticate                                              *)
(***************************************************************************)
\* what LocalAuthentication.authenticateAsync and the haptics.heavy() after a success
\* can do: resolve with success, resolve with a failure carrying an error code, none
\* or an empty one, or throw an Error (with or without a message) or another value
NativeOutcomes ==
    {[kind |-> "resolved", success |-> TRUE, error |-> "undefined", heavyOk |-> h] :
        h \in BOOLEAN}
    \cup {[kind |-> "resolved", success |-> FALSE, error |-> e, heavyOk |-> TRUE] :
             e \in {"undefined", "", "user_cancel"}}
    \cup {[kind |-> k, success |-> FALSE, error |-> e, heavyOk |-> TRUE] :
             k \in {"threwError"}, e \in {"", "boom"}}
    \cup {[kind |-> "threwValue", success |-> FALSE, error |-> "undefined", heavyOk |-> TRUE]}

\* no native call is made
NoOutcome == [kind |-> "none", success |-> FALSE, error |-> "undefined", heavyOk |-> TRUE]

\* a || b on strings: the first operand unless it is undefined or empty
orElse(a, b) == IF a \in {"undefined", ""} THEN b ELSE a

\* authenticate without its try / catch
authenticateUncaught(avail, out) ==
    IF ~avail
    THEN [threw |-> FALSE, success |-> FALSE,
          error |-> "Biometric authentication is not available on this device"]
    ELSE IF out.kind = "resolved"
    THEN IF out.success
         THEN [threw |-> FALSE, success |-> TRUE, error |-> "undefined"]
         ELSE [threw |-> FALSE, success |-> FALSE,
               error |-> orElse(out.error, "Authentication failed")]
    ELSE [threw |-> TRUE, success |-> FALSE, error |-> "undefined"]

\* the BiometricResult authenticate returns, threw telling whether it throws instead;
\* haptics.heavy() catches its own failure
authenticate(avail, out) ==
    IF ~avail
    THEN [threw |-> FALSE, success |-> FALSE,
          error |-> "Biometric authentication is not available on this device"]
    ELSE IF out.kind = "resolved"
    THEN IF out.success
         THEN [threw |-> FALSE, success |-> TRUE, error |-> "undefined"]
         ELSE [threw |-> FALSE, success |-> FALSE,
               error |-> orElse(out.error, "Authentication failed")]
    ELSE [threw |-> FALSE, success |-> FALSE,
          error |-> IF out.kind = "threwError" THEN out.error ELSE "Authentication failed"]

\* a caller calls authenticate() of the current render and the call completes
authenticateCall ==
    /\ authCalls < MaxAuthCalls
    /\ authCalls' = authCalls + 1
    /\ \E out \in IF isAvailable THEN NativeOutcomes ELSE {NoOutcome} :
          authResult' = [called |-> TRUE, avail |-> isAvailable, out |-> out,
                         result |-> authenticate(isAvailable, out)]
    /\ UNCHANGED <<obVars, stVars, btVars, lnVars, tgVars>>

(***************************************************************************)
(* Specifications                                                          *)
(***************************************************************************)
\* authenticate not called yet
AuInit ==
    /\ authResult = [called |-> FALSE, avail |-> FALSE, out |-> NoOutcome,
                     result |-> [threw |-> FALSE, success |-> FALSE, error |-> "undefined"]]
    /\ authCalls = 0

\* the first launch on a fresh install
LnInit ==
    /\ hasLaunched = "null"
    /\ isFirstLaunch = "null"
    /\ launchPc = "getItem"
    /\ route = "none"
    /\ firstRoute = "none"
    /\ foundNoFlag = "unknown"
    /\ launches = 1

\* a Button not pressed yet
BtInit ==
    /\ btnDisabled \in BOOLEAN
    /\ hapticRequests = 0
    /\ btnPending = 0
    /\ onPressCalls = 0
    /\ btnLast = "mount"

\* no switch toggled yet, on an iOS or an Android device
TgInit == toggled = [k \in ToggleKeys |-> 0] /\ platformOS \in {"ios", "android"}

AuxInit == BtInit /\ btnDisabled = FALSE /\ LnInit /\ AuInit /\ TgInit /\ platformOS = "ios"

ObInit ==
    /\ currentStep = "welcome"
    /\ isLoading = FALSE
    /\ email = <<>>
    /\ mounted = TRUE
    /\ isAvailable = initialAvailable
    /\ isChecking = TRUE
    /\ hasHardware \in BOOLEAN
    /\ isEnrolled \in BOOLEAN
    /\ supportedTypes \in 0..1
    /\ presses = EmptyBag
    /\ auths = EmptyBag
    /\ timers = EmptyBag
    /\ lastOp = [op |-> "mount", step |-> "welcome", email |-> <<>>, wasLoading |-> FALSE,
                 failed |-> FALSE, retried |-> FALSE]

\* the stored item is absent (first run), unparseable, or a record this code wrote
StInit ==
    /\ settings = mockSettings
    /\ settingsLoading = TRUE
    /\ stored \in {NoItem, Item("corrupt", <<>>)} \cup {Item("json", stringify(s)) : s \in StoredSamples}
    /\ loadState = "reading"
    /\ loadBuf = NoItem
    /\ callers = EmptyBag
    /\ writes = <<>>
    /\ calls = 0
    /\ restarts = 0
    /\ lastSt = StOp("mount", TRUE)
    /\ hist = [settled |-> FALSE, kind |-> "none", expected |-> mockSettings,
               ordered |-> mockSettings, done |-> FALSE,
               reload |-> "no", overlap |-> FALSE, a |-> <<>>, b |-> <<>>]

vars == <<obVars, stVars, auxVars>>

\* the onboarding screen on a first run
Init == ObInit /\ StInit /\ stored = NoItem /\ AuxInit

Next ==
    \/ checkBiometricCapability
    \/ press
    \/ pressNext
    \/ pressBiometric
    \/ authSuccess
    \/ authFailure
    \/ timerFire
    \/ setEmail

Spec == Init /\ [][Next]_vars

\* the onboarding screen with every setTimeout callback eventually run, every awaited
\* haptic call eventually settled and every open prompt eventually answered; the user
\* may stop pressing at any time
SpecFair ==
    /\ Init
    /\ [][Next]_vars
    /\ WF_vars(timerFire)
    /\ WF_vars(pressNext)
    /\ WF_vars(pressBiometric)
    /\ WF_vars(authSuccess \/ authFailure)

\* the user acts only when nothing is outstanding: each advance is issued after the
\* previous one has settled
Quiescent == PendingCount = 0

SeqNext ==
    \/ checkBiometricCapability
    \/ Quiescent /\ press
    \/ pressNext
    \/ pressBiometric
    \/ authSuccess
    \/ authFailure
    \/ timerFire
    \/ Quiescent /\ setEmail

SpecSeq == Init /\ [][SeqNext]_vars

\* the onboarding screen on a device without biometric hardware: every press of the
\* button goes to handleNext; presses, timers and edits of the contact overlap freely
PasscodeInit == Init /\ ~hasHardware /\ ~isEnrolled /\ supportedTypes = 0

PasscodeNext ==
    \/ checkBiometricCapability
    \/ press
    \/ pressNext
    \/ timerFire
    \/ setEmail

SpecPasscode == PasscodeInit /\ [][PasscodeNext]_vars

\* the onboarding screen while the contact field is left as it is: any device, presses,
\* prompts and timers overlap freely
UntypedNext ==
    \/ checkBiometricCapability
    \/ press
    \/ pressNext
    \/ pressBiometric
    \/ authSuccess
    \/ authFailure
    \/ timerFire

SpecUntyped == Init /\ [][UntypedNext]_vars

\* the settings store, on a device without biometrics
StoreInit == ObInit /\ ~hasHardware /\ ~isEnrolled /\ supportedTypes = 0 /\ StInit /\ AuxInit

StoreNext ==
    \/ loadRead
    \/ loadSettings
    \/ consumerHandler
    \/ updateSetting
    \/ updateSettings
    \/ resetSettings
    \/ saveSettings
    \/ restart

SpecStore == StoreInit /\ [][StoreNext]_vars

\* the settings store around its load: few calls, any order of read, load, call,
\* write and restart
LoadNext ==
    \/ loadRead
    \/ loadSettings
    \/ calls < MaxLoadCalls /\ consumerHandler
    \/ updateSetting
    \/ updateSettings
    \/ calls < MaxLoadCalls /\ resetSettings
    \/ saveSettings
    \/ restart

SpecLoad == StoreInit /\ [][LoadNext]_vars

\* one Button, pressed, rendered and its haptic calls settling in any order
ButtonInit ==
    /\ ObInit /\ ~hasHardware /\ ~isEnrolled /\ supportedTypes = 0
    /\ StInit /\ stored = NoItem
    /\ BtInit
    /\ LnInit
    /\ AuInit
    /\ TgInit /\ platformOS = "ios"

ButtonNext ==
    \/ buttonRender
    \/ buttonPress
    \/ buttonHapticSettled

SpecButton == ButtonInit /\ [][ButtonNext]_vars

\* the switches of SettingsScreen on a first run: nothing stored, toggles in any
\* order with the load and the writes
ToggleNext ==
    \/ loadRead
    \/ loadSettings
    \/ handleToggle
    \/ toggleUpdateSetting
    \/ saveSettings

ToggleInit == StoreInit /\ stored = NoItem

SpecToggle == ToggleInit /\ [][ToggleNext]_vars

\* the haptic feedback switch, a Button and the handlers using useHaptics, on a first
\* run on either platform
HapticsInit ==
    /\ ObInit /\ ~hasHardware /\ ~isEnrolled /\ supportedTypes = 0
    /\ StInit /\ stored = NoItem
    /\ BtInit /\ btnDisabled = FALSE
    /\ LnInit
    /\ AuInit
    /\ TgInit

HapticsNext ==
    \/ loadRead
    \/ loadSettings
    \/ handleToggle
    \/ toggleUpdateSetting
    \/ saveSettings
    \/ buttonPress
    \/ buttonHapticSettled
    \/ useHapticsImpact

SpecHaptics == HapticsInit /\ [][HapticsNext]_vars

\* the biometrics hook with callers of authenticate, on any device
AuthNext ==
    \/ checkBiometricCapability
    \/ authenticateCall

SpecAuth == Init /\ [][AuthNext]_vars

\* the launches of the app on one install
LaunchNext ==
    \/ checkFirstLaunchRead
    \/ checkFirstLaunchWrite
    \/ navigate
    \/ relaunch

LaunchInit == Init /\ ~hasHardware /\ ~isEnrolled /\ supportedTypes = 0

SpecLaunch == LaunchInit /\ [][LaunchNext]_vars

TypeOK ==
    /\ currentStep \in Steps
    /\ isLoading \in BOOLEAN
    /\ email \in Texts
    /\ mounted \in BOOLEAN
    /\ isAvailable \in BOOLEAN
    /\ PendingCount <= MaxPending
    /\ settings \in AllSettings
    /\ calls <= MaxCalls

(***************************************************************************)
(* Properties                                                              *)
(***************************************************************************)
\* a text with nothing but spaces in it
blank(s) == \A i \in DOMAIN s : s[i] = " "

\* the settings hold every field of the partial with the partial's value
Agrees(s, partial) == \A f \in DOMAIN partial : f \in DOMAIN s /\ s[f] = partial[f]

\* C1: when each advance is issued after the previous one has settled, the flow
\* starts at welcome and every change of currentStep goes to the step that follows
\* immediately in steps: welcome, device-key, cloud-key, recovery-key, complete, none
\* skipped and none repeated.
C1_LinearProgress ==
    /\ currentStep = "welcome"
    /\ [][currentStep' # currentStep => indexOf(currentStep') = indexOf(currentStep) + 1]_vars

C1_Witness == currentStep = "complete" /\ lastOp.op = "timer" /\ lastOp.step = "recovery-key"

\* C2: for any interleaving of presses, prompt completions and timer firings the index
\* of currentStep never decreases, and once currentStep is complete nothing changes
\* currentStep, isLoading or email any more.
C2_MonotoneAndTerminal ==
    [][/\ indexOf(currentStep') >= indexOf(currentStep)
       /\ currentStep = "complete" =>
             /\ currentStep' = currentStep
             /\ isLoading' = isLoading
             /\ email' = email]_vars

\* C3: a handleNext that runs while isLoading is true changes no onboarding state and
\* starts no timer and no biometric prompt.
C3_NoDoubleSubmit ==
    [][(lastOp'.op = "handleNext" /\ isLoading) =>
          UNCHANGED <<currentStep, isLoading, email, timers, auths>>]_vars

\* C4: when an update of some fields is issued while an update of other fields has not
\* completed, the in-memory settings hold both changes, and once both writes have
\* settled so does the stored record.
C4_NoLostUpdate ==
    hist.overlap =>
       /\ Agrees(settings, hist.a)
       /\ Agrees(settings, hist.b)
       /\ writes = <<>> =>
             /\ stored.kind = "json"
             /\ Agrees(parse(stored.doc), hist.a)
             /\ Agrees(parse(stored.doc), hist.b)

\* C5: once an update has completed, the in-memory settings equal the merge of the
\* settings before the call with the partial value, and so do the settings a restarted
\* process has loaded from storage.
C5_RoundTrip ==
    (hist.kind = "update" /\ hist.done /\ hist.reload \in {"no", "loaded"}) =>
       settings = hist.expected

\* C6: when some update or reset has completed and none is in progress, the stored
\* record equals the in-memory settings.
C6_MemoryMatchesStorage ==
    (hist.settled /\ writes = <<>>) =>
       /\ stored.kind = "json"
       /\ parse(stored.doc) = settings

\* C7: when the durable write of an update or reset fails, the call is rejected
\* instead of completing as a success.
C7_StorageErrorPropagated ==
    (lastSt.op = "saveSettings" /\ ~lastSt.ok) => lastSt.outcome = "rejected"

\* C8: an advance on recovery-key with an empty or whitespace-only contact (a press of
\* the button, or handleNext itself) leaves currentStep and isLoading as they are and
\* schedules no timer.
C8_ValidationBlocksProgress ==
    [][(/\ lastOp'.op \in {"handleNext", "pressDisabled"}
        /\ lastOp'.step = "recovery-key"
        /\ blank(lastOp'.email)) =>
          UNCHANGED <<currentStep, isLoading, timers, presses>>]_vars

C8_Witness ==
    /\ lastOp.op = "pressDisabled"
    /\ lastOp.step = "recovery-key"
    /\ lastOp.email = <<" ">>
    /\ ~lastOp.wasLoading
    /\ currentStep = "recovery-key"

\* C9: whenever currentStep is complete, the email held by the screen is non-empty
\* after trimming.
C9_ContactAtComplete == currentStep = "complete" => truthy(trim(email))

\* C10: the native biometric prompt is opened only when the capability check has
\* reported biometrics available on a device with hardware present and biometrics
\* enrolled.
C10_PromptOnlyWhenCapable ==
    [][BagCardinality(auths') > BagCardinality(auths) =>
          /\ isAvailable
          /\ hasHardware
          /\ isEnrolled
          /\ supportedTypes > 0]_vars

C10_Witness == auths # EmptyBag /\ isAvailable /\ currentStep = "device-key"

\* C11: the flow is at complete exactly when one call of the settings store's update
\* has been made for it: none before complete is reached, one from then on.
C11_CompletionPersistedOnce ==
    /\ currentStep = "complete" => calls = 1
    /\ currentStep # "complete" => calls = 0

\* an update or reset has been applied since the process started
Applied == writes # <<>> \/ hist.settled

\* C12 (as amended): when what was read is missing, unreadable or not parseable,
\* loadSettings completes (isLoading false) leaving the in-memory settings as they
\* were, which is the defaults when no update or reset has been applied, and it writes
\* nothing: the stored item and the outstanding writes are unchanged.
C12_LoadFallsBack ==
    [][(lastSt'.op = "loadSettings" /\ loadBuf.kind # "json") =>
          /\ settings' = settings
          /\ ~Applied => settings' = mockSettings
          /\ stored' = stored
          /\ writes' = writes
          /\ ~settingsLoading'
          /\ loadState' = "done"]_vars

C12_Witness ==
    /\ lastSt.op = "loadSettings"
    /\ loadBuf.kind = "corrupt"
    /\ stored.kind = "corrupt"
    /\ settings = mockSettings
    /\ ~settingsLoading

\* C12 (as claimed): after a load that found the record missing, unreadable or not
\* parseable, with no update or reset applied, the in-memory settings are the defaults
\* and the stored record is the default record.
C12_LoadPersistsDefaults ==
    (loadState = "done" /\ loadBuf.kind # "json" /\ ~Applied) =>
       /\ settings = mockSettings
       /\ stored = Item("json", stringify(mockSettings))

\* C13: once an update or reset has been applied, completion of the load from storage
\* does not change the in-memory settings.
C13_LoadKeepsLatest ==
    [][(lastSt'.op = "loadSettings" /\ Applied) => settings' = settings]_vars

\* C14: when all update calls issued have completed, the last write having succeeded
\* and no load having replaced the settings, the in-memory settings and the stored
\* record equal the partial values applied in call order.
C14_CallOrder ==
    (/\ hist.kind = "update"
     /\ hist.done
     /\ hist.reload = "no"
     /\ lastSt.op = "saveSettings"
     /\ lastSt.ok
     /\ loadBuf.kind # "json") =>
       /\ settings = hist.ordered
       /\ stored = Item("json", stringify(hist.ordered))

ScreenState == <<currentStep, isLoading, email, isAvailable, isChecking>>

\* C17: a failed or cancelled biometric prompt leaves a record of the error in the
\* screen's state, with the flow still on device-key and isLoading false.
C17_FailureRecorded ==
    [][lastOp'.op = "authFailed" =>
          /\ ScreenState' # ScreenState
          /\ currentStep' = "device-key"
          /\ ~isLoading']_vars

\* an effect started on the current step, a prompt or a timer, is outstanding
EffectOutstanding ==
    \/ \E a \in BagToSet(auths) : a.step = currentStep
    \/ \E t \in BagToSet(timers) : t.from = currentStep

\* C18: while the screen is mounted isLoading is true exactly when an effect of the
\* current step is outstanding, and it is false whenever a step is entered.
C18_LoadingIffEffect ==
    /\ [](mounted => (isLoading <=> EffectOutstanding))
    /\ [][currentStep' # currentStep => ~isLoading']_vars

\* the effect advancing from device-key would use
deviceKeyEffect == IF isAvailable THEN "authenticate" ELSE "no-op"

\* C19: the effect advancing from device-key would use is the one fixed
\* when the flow started, whatever the capability check reports later.
C19_EffectFixedAtStart == [][deviceKeyEffect' = deviceKeyEffect]_vars

\* C20: once a reset has completed, the in-memory settings are the defaults, also
\* after a restart has loaded them, and until then the stored record is the default
\* record.
C20_ResetToDefaults ==
    (hist.kind = "reset" /\ hist.done /\ hist.reload \in {"no", "loaded"}) =>
       /\ settings = mockSettings
       /\ hist.reload = "no" => stored = Item("json", stringify(mockSettings))

\* C21 (as amended): the progress shown is the step's number over the number of steps,
\* (index(currentStep) + 1) / 5 as a percentage: 20, 40, 60, 80, 100 for the five
\* steps; it is within (0, 100], never 0, and 100 exactly at complete.
C21_ProgressByStepNumber ==
    /\ progress(currentStep) =
          CASE currentStep = "welcome" -> 20
            [] currentStep = "device-key" -> 40
            [] currentStep = "cloud-key" -> 60
            [] currentStep = "recovery-key" -> 80
            [] currentStep = "complete" -> 100
    /\ progress(currentStep) > 0
    /\ progress(currentStep) <= 100
    /\ progress(currentStep) = 100 <=> currentStep = "complete"

C21_Witness == currentStep = "cloud-key" /\ progress(currentStep) = 60 /\ ~isLoading

\* C21 (as claimed): the progress shown is index(currentStep) / (number of steps - 1):
\* 0 at welcome, 100 at complete, as a percentage 0, 25, 50, 75, 100.
C21_ProgressFraction ==
    progress(currentStep) * (Len(steps) - 1) = indexOf(currentStep) * 100

\* C22: a press on a Button whose disabled prop is true requests no haptic impact and
\* leads to no call of onPress: nothing of the button's state changes.
C22_DisabledPressDoesNothing ==
    [][btnLast' = "pressDisabled" =>
          /\ btnDisabled
          /\ hapticRequests' = hapticRequests
          /\ btnPending' = btnPending
          /\ onPressCalls' = onPressCalls]_vars

C22_Witness ==
    /\ btnLast = "pressDisabled"
    /\ btnDisabled
    /\ btnPending = 1
    /\ hapticRequests = 1
    /\ onPressCalls = 0

\* C23: a press on an enabled Button first requests one haptic impact, with onPress not
\* yet called, and when that haptic call settles, resolved or failed, onPress is called
\* exactly once: the calls of onPress and the haptic calls still awaited add up to the
\* haptic impacts requested.
C23_HapticThenOnPressOnce ==
    /\ [](hapticRequests = onPressCalls + btnPending)
    /\ [][hapticRequests' # hapticRequests =>
             /\ ~btnDisabled
             /\ hapticRequests' = hapticRequests + 1
             /\ btnPending' = btnPending + 1
             /\ onPressCalls' = onPressCalls]_vars
    /\ [][btnPending' < btnPending =>
             /\ btnPending' = btnPending - 1
             /\ onPressCalls' = onPressCalls + 1]_vars

C23_Witness ==
    /\ btnLast = "hapticRejected"
    /\ onPressCalls = 2
    /\ hapticRequests = 2
    /\ btnPending = 0

\* C24: in every launch, the route the navigator shows first is an onboarding screen
\* exactly when this launch found no stored hasLaunched flag: onboarding on the first
\* launch and on no later one.
C24_OnboardingOnFirstLaunchOnly ==
    (firstRoute # "none" /\ foundNoFlag # "unknown") =>
       (firstRoute \in OnboardingRoutes <=> foundNoFlag = "yes")

\* the security layers renderStepContent lists, by the step each stands for
Layers == {"device-key", "cloud-key", "recovery-key"}

\* the layers renderStepContent shows with the completed mark on this step
completedSteps(step) ==
    CASE step = "cloud-key" -> {"device-key"}
      [] step = "recovery-key" -> {"device-key", "cloud-key"}
      [] OTHER -> {}

\* the layers shown on this step without the completed mark (active or plain)
shownNotCompleted(step) == IF step \in Layers THEN Layers \ completedSteps(step) ELSE {}

\* C25: the steps shown as completed never contain currentStep, and a step shown as
\* completed is not shown as not completed afterwards.
C25_CompletedStepsGrow ==
    /\ [](currentStep \notin completedSteps(currentStep))
    /\ [][completedSteps(currentStep) \cap shownNotCompleted(currentStep') = {}]_vars

\* C27: at most one asynchronous effect of the flow, biometric prompt or provisioning
\* timer, is outstanding at any time.
C27_OneEffectOutstanding == BagCardinality(auths) + BagCardinality(timers) <= 1

\* C26: authenticate never throws. With the capability unavailable, with a failed or
\* cancelled prompt and with an exception from the native API it returns success false
\* together with an error text (non-empty, unless the exception is an Error whose own
\* message is empty); it returns success true, without error, only when the capability
\* was available and the native prompt reported success.
C26_AuthenticateNeverThrows ==
    authResult.called =>
       /\ ~authResult.result.threw
       /\ authResult.result.success <=>
             (authResult.avail /\ authResult.out.kind = "resolved"
              /\ authResult.out.success)
       /\ authResult.result.success => authResult.result.error = "undefined"
       /\ ~authResult.result.success =>
             /\ authResult.result.error # "undefined"
             /\ authResult.result.error = "" =>
                   (authResult.out.kind = "threwError" /\ authResult.out.error = "")

C26_Witness ==
    /\ authResult.called
    /\ authResult.avail
    /\ authResult.out.kind = "threwValue"
    /\ ~authResult.result.success
    /\ authResult.result.error = "Authentication failed"

\* C28: when every handleToggle issued has completed, each switch's setting has been
\* flipped once per toggle of that switch: it has its first value after an even number
\* of toggles and the opposite value after an odd number.
C28_TogglesFlip ==
    (callers = EmptyBag /\ writes = <<>>) =>
       \A key \in ToggleKeys :
          settings[key] = (mockSettings[key] <=> (toggled[key] % 2 = 0))

\* C29: with every timer eventually firing, each state of the mounted screen with
\* isLoading true on some step is followed by a state with isLoading false and
\* currentStep on the step after it (or by the screen having been left).
C29_LoadingEnds ==
    \A st \in Steps :
       (mounted /\ isLoading /\ currentStep = st) ~>
          (~mounted \/ (~isLoading /\ currentStep = nextStepOf(st)))

\* the stored record has hapticFeedbackEnabled false
HapticsOffStored == stored.kind = "json" /\ ~parse(stored.doc).hapticFeedbackEnabled

\* C30: while the stored setting hapticFeedbackEnabled is false no haptic impact is
\* requested, neither by a Button press nor through useHaptics.
C30_NoHapticsWhenOff ==
    [][HapticsOffStored => hapticRequests' = hapticRequests]_vars
====
